---- MODULE Spec2Model ----
(***************************************************************************)
(* PosyanduDigital OCR worker: the pipeline orchestrator (main.py), the    *)
(* table detector's strategy selection, the cell extractor, the bounded    *)
(* fan-out of the text recognizer with its confidence scoring, and the     *)
(* schema mapper.                                                          *)
(*                                                                         *)
(* Conventions                                                             *)
(*   - a Python str is a sequence of one-character strings;                *)
(*   - a confidence is an integer number of 1/10000 (0.75 is 7500), so     *)
(*     that round(x, 2) is a real operation (rounding to a multiple of     *)
(*     100) and not the identity;                                          *)
(*   - None is the value NoneVal;                                          *)
(*   - a Python local that is read more than once is an operator           *)
(*     parameter of the definition that continues the function body.       *)
(***************************************************************************)
EXTENDS Integers, Sequences, FiniteSets, TLC

\* ------------------------------------------------------------------ bounds

\* number of POST /process requests the entry point accepts in one behaviour
MaxRuns == 2
\* largest number of cells handed to one recognize_cells call (SpecRec)
MaxCells == 6
\* largest number of recognized cells handed to map_to_schema (SpecMap)
MaxMapCells == 3

\* ------------------------------------------------------- program constants

\* main.py:142  str(e)[:1000]
ERROR_MESSAGE_LIMIT == 1000
\* text_recognizer.py:26  asyncio.Semaphore(5)
SEMAPHORE_LIMIT == 5
\* table_detector.py:128  abs(rect[1] - row_y) < 15
ROW_Y_THRESHOLD == 15

\* None (a one-element sequence, so that it compares with any str of the model)
NoneVal == <<"None">>

\* ------------------------------------------------------------ str helpers

Min(a, b) == IF a <= b THEN a ELSE b
Max(a, b) == IF a >= b THEN a ELSE b

LowerSeq ==
    <<"a", "b", "c", "d", "e", "f", "g", "h", "i", "j", "k", "l", "m",
      "n", "o", "p", "q", "r", "s", "t", "u", "v", "w", "x", "y", "z">>
UpperSeq ==
    <<"A", "B", "C", "D", "E", "F", "G", "H", "I", "J", "K", "L", "M",
      "N", "O", "P", "Q", "R", "S", "T", "U", "V", "W", "X", "Y", "Z">>
DigitSeq == <<"0", "1", "2", "3", "4", "5", "6", "7", "8", "9">>

Range(seq) == {seq[i] : i \in 1..Len(seq)}
IndexIn(c, seq) == CHOOSE i \in 1..Len(seq) : seq[i] = c

\* the characters c.isdigit() accepts in the model's alphabet
Digits == Range(DigitSeq)

\* str.upper() / str.lower()
Upper(s) ==
    [i \in 1..Len(s) |->
        IF s[i] \in Range(LowerSeq) THEN UpperSeq[IndexIn(s[i], LowerSeq)] ELSE s[i]]
Lower(s) ==
    [i \in 1..Len(s) |->
        IF s[i] \in Range(UpperSeq) THEN LowerSeq[IndexIn(s[i], UpperSeq)] ELSE s[i]]

\* str.lstrip() / str.rstrip() (the model's alphabet has the blank only)
RECURSIVE LStrip(_)
LStrip(s) == IF s # <<>> /\ s[1] = " " THEN LStrip(Tail(s)) ELSE s
RECURSIVE RStrip(_)
RStrip(s) ==
    IF s # <<>> /\ s[Len(s)] = " " THEN RStrip(SubSeq(s, 1, Len(s) - 1)) ELSE s

\* str.strip()
Strip(s) == RStrip(LStrip(s))

\* str.replace(",", ".")
ReplaceComma(s) == [i \in 1..Len(s) |-> IF s[i] = "," THEN "." ELSE s[i]]

\* s[:n]
Prefix(s, n) == SubSeq(s, 1, Min(Len(s), n))

\* length of the run of decimal digits of s that starts at position i
RECURSIVE DigitRun(_, _)
DigitRun(s, i) ==
    IF i <= Len(s) /\ s[i] \in Digits THEN 1 + DigitRun(s, i + 1) ELSE 0

\* int() of the decimal digits s[1..n]
RECURSIVE DigitsValue(_, _)
DigitsValue(s, n) ==
    IF n = 0 THEN 0 ELSE 10 * DigitsValue(s, n - 1) + (IndexIn(s[n], DigitSeq) - 1)

RECURSIVE Pow10(_)
Pow10(n) == IF n <= 0 THEN 1 ELSE 10 * Pow10(n - 1)

\* ------------------------------------------------------------------ float()

\* float(s) on the model's alphabet: surrounding blanks, an optional sign, then
\* inf / infinity / nan in any case, or digits with at most one "." and an
\* optional exponent.  ok = FALSE is ValueError.  The value of a number is
\* mant * 10^(exp - frac), kept exact (the texts of the model are short, so
\* the nearest double compares with 1.0, 30.0 and 130.0 as the exact value).
NotAFloat ==
    [ok |-> FALSE, special |-> FALSE, neg |-> FALSE, mant |-> 0, frac |-> 0, exp |-> 0]

\* int() of a run of decimal digits
IntOf(s) == DigitsValue(s, Len(s))

\* the digits of the exponent, b[from..], all of them to the end of b
ExponentDigits(b, from, neg) ==
    IF from <= Len(b) /\ DigitRun(b, from) = Len(b) - from + 1
    THEN [ok |-> TRUE, exp |-> (IF neg THEN 0 - 1 ELSE 1) * IntOf(SubSeq(b, from, Len(b)))]
    ELSE [ok |-> FALSE, exp |-> 0]

\* the exponent part of b from position p on (p > Len(b): there is none)
ParseExponent(b, p) ==
    IF p > Len(b) THEN [ok |-> TRUE, exp |-> 0]
    ELSE IF b[p] \notin {"e", "E"} THEN [ok |-> FALSE, exp |-> 0]
    ELSE IF p + 1 <= Len(b) /\ b[p + 1] \in {"+", "-"}
    THEN ExponentDigits(b, p + 2, b[p + 1] = "-")
    ELSE ExponentDigits(b, p + 1, FALSE)

\* the number with n1 digits before the point, n2 after it and exponent e
FloatOf(b, neg, n1, n2, e) ==
    IF ~e.ok THEN NotAFloat
    ELSE [ok |-> TRUE, special |-> FALSE, neg |-> neg,
          mant |-> IntOf(SubSeq(b, 1, n1) \o SubSeq(b, n1 + 2, n1 + 1 + n2)),
          frac |-> n2, exp |-> e.exp]

\* after the digits: n1 before the point, n2 after it (dot = 1: there is a point)
ScanExponent(b, neg, n1, n2, dot) ==
    IF n1 + n2 = 0 THEN NotAFloat
    ELSE FloatOf(b, neg, n1, n2, ParseExponent(b, n1 + dot + n2 + 1))

\* after the n1 digits before the point
ScanFraction(b, neg, n1) ==
    IF n1 + 1 <= Len(b) /\ b[n1 + 1] = "."
    THEN ScanExponent(b, neg, n1, DigitRun(b, n1 + 2), 1)
    ELSE ScanExponent(b, neg, n1, 0, 0)

\* b: the text after the sign
ParseUnsigned(b, neg) ==
    IF Lower(b) \in {<<"i", "n", "f">>, <<"n", "a", "n">>,
                     <<"i", "n", "f", "i", "n", "i", "t", "y">>}
    THEN [ok |-> TRUE, special |-> TRUE, neg |-> neg, mant |-> 0, frac |-> 0, exp |-> 0]
    ELSE ScanFraction(b, neg, DigitRun(b, 1))

\* t: the text without the surrounding blanks
ParseSigned(t) ==
    IF t # <<>> /\ t[1] \in {"+", "-"} THEN ParseUnsigned(Tail(t), t[1] = "-")
    ELSE ParseUnsigned(t, FALSE)

ParseFloat(s) == ParseSigned(Strip(s))

\* lo <= val <= hi for val = float(...) and integers 0 < lo <= hi
\* (nan compares false with everything, +-inf lies outside every range)
FloatInRange(p, lo, hi) ==
    /\ ~p.special
    /\ ~(p.neg /\ p.mant > 0)
    /\ IF p.exp - p.frac >= 0
       THEN /\ lo <= p.mant * Pow10(p.exp - p.frac)
            /\ p.mant * Pow10(p.exp - p.frac) <= hi
       ELSE /\ lo * Pow10(p.frac - p.exp) <= p.mant
            /\ p.mant <= hi * Pow10(p.frac - p.exp)

\* --------------------------------------------------------- regular expressions

NoDateMatch == [ok |-> FALSE, day |-> <<>>, month |-> <<>>, year |-> <<>>]

\* the year group \d{2,4}: y digits after a day of d and a month of mo digits
DateMatchYear(s, d, mo, y) ==
    IF y >= 2
    THEN [ok |-> TRUE, day |-> SubSeq(s, 1, d), month |-> SubSeq(s, d + 2, d + 1 + mo),
          year |-> SubSeq(s, d + mo + 3, d + mo + 2 + y)]
    ELSE NoDateMatch

\* the month group \d{1,2} (a run of mo digits) and the second separator
DateMatchMonth(s, d, mo) ==
    IF mo \in 1..2 /\ d + mo + 2 <= Len(s) /\ s[d + mo + 2] \in {"/", "-", "."}
    THEN DateMatchYear(s, d, mo, Min(DigitRun(s, d + mo + 3), 4))
    ELSE NoDateMatch

\* the day group \d{1,2} (a run of d digits) and the first separator
DateMatchDay(s, d) ==
    IF d \in 1..2 /\ d + 1 <= Len(s) /\ s[d + 1] \in {"/", "-", "."}
    THEN DateMatchMonth(s, d, DigitRun(s, d + 2))
    ELSE NoDateMatch

\* re.match(r"(\d{1,2})[/\-\.](\d{1,2})[/\-\.](\d{2,4})", s): the match is
\* anchored at the start only; each digit group is greedy, and a group that
\* must be followed by a separator can only be the whole digit run.
DateMatch(s) == DateMatchDay(s, DigitRun(s, 1))

\* re.search(r"\d+", s)
HasDigit(s) == \E i \in 1..Len(s) : s[i] \in Digits

\* ------------------------------------------------- cell_extractor.COLUMN_FIELD_MAP

\* col_idx c (0-based) is COLUMN_FIELD_MAP[c + 1]
COLUMN_FIELD_MAP ==
    <<"nama_anak", "tanggal_lahir", "umur", "jenis_kelamin", "nama_ibu",
      "alamat", "bb_lalu", "bb_sekarang", "tb", "status_nt">>

FieldNames == {COLUMN_FIELD_MAP[i] : i \in 1..10}

\* ----------------------------------------------- text_recognizer: confidence

\* round(x, 2): to the nearest multiple of 0.01, ties to the even one
Round2(x) ==
    IF x % 100 < 50 THEN (x \div 100) * 100
    ELSE IF x % 100 > 50 THEN (x \div 100 + 1) * 100
    ELSE IF (x \div 100) % 2 = 0 THEN (x \div 100) * 100 ELSE (x \div 100 + 1) * 100

\* sum(1 for c in text if c.isalpha())
AlphaCount(s) ==
    Cardinality({i \in 1..Len(s) : s[i] \in Range(LowerSeq) \cup Range(UpperSeq)})

\* the weight and height branches (text_recognizer.py:96-113) for
\* val = float(text.replace(",", ".")): 0.40 on ValueError, 0.90 inside the
\* range, else the default is kept
NumericBase(val, lo, hi) ==
    IF ~val.ok THEN 4000
    ELSE IF FloatInRange(val, lo, hi) THEN 9000 ELSE 7500

\* the per-field base of a non-empty text (text_recognizer.py:93-144)
FieldBase(text, field_name) ==
    IF field_name \in {"bb_lalu", "bb_sekarang", "tb"}
    THEN NumericBase(ParseFloat(ReplaceComma(text)),
                     IF field_name = "tb" THEN 30 ELSE 1,
                     IF field_name = "tb" THEN 130 ELSE 30)
    ELSE IF field_name = "jenis_kelamin"
    THEN IF Upper(text) \in {<<"L">>, <<"P">>,
                            <<"L", "A", "K", "I", "-", "L", "A", "K", "I">>,
                            <<"P", "E", "R", "E", "M", "P", "U", "A", "N">>}
         THEN 9500 ELSE 3000
    ELSE IF field_name = "tanggal_lahir"
    THEN IF DateMatch(text).ok THEN 8800 ELSE 4500
    ELSE IF field_name = "status_nt"
    THEN IF Upper(text) \in {<<"N">>, <<"T">>, <<"N", "A", "I", "K">>,
                            <<"T", "I", "D", "A", "K">>,
                            <<"T", "I", "D", "A", "K", " ", "N", "A", "I", "K">>}
         THEN 9500 ELSE 3500
    ELSE IF field_name = "umur"
    THEN IF HasDigit(text) THEN 8500 ELSE 4500
    ELSE IF field_name = "nama_anak"
    THEN IF 10 * AlphaCount(text) > 7 * Max(Len(text), 1) THEN 8500 ELSE 7500
    ELSE 7500

\* the boost without its cap: base = base + 0.10
HintBoostUncapped(base, text, hint) ==
    IF hint # <<>> /\ Strip(Lower(hint)) = Strip(Lower(text)) THEN base + 1000 ELSE base

\* if hint and hint.lower().strip() == text.lower().strip():
\*     base = min(base + 0.10, 1.0) (text_recognizer.py:147-148)
HintBoost(base, text, hint) ==
    IF hint # <<>> /\ Strip(Lower(hint)) = Strip(Lower(text))
    THEN Min(base + 1000, 10000) ELSE base

\* return 0.3 if not hint else 0.5 (text_recognizer.py:91)
EmptyTextConfidence(hint) == IF hint = <<>> THEN 3000 ELSE 5000

_calculate_confidence(text, field_name, hint) ==
    IF text = <<>> THEN EmptyTextConfidence(hint)
    ELSE Round2(HintBoost(FieldBase(text, field_name), text, hint))

\* ------------------------------------------------------------ table_detector

\* img.shape of the normalized image (the preprocessor upscales to a width of
\* at least 1500 and pads 20 on every side)
IMG_W == 1540
IMG_H == 1040

\* s is a sorted sequence of <<key, value>> with keys (y, x) in Python's order
\* on tuples; x goes after every entry whose key is not greater: sorted() is
\* stable
RECURSIVE InsertSorted(_, _, _)
InsertSorted(x, kx, s) ==
    IF s = <<>> THEN << <<kx, x>> >>
    ELSE IF \/ Head(s)[1][1] < kx[1]
            \/ (Head(s)[1][1] = kx[1] /\ Head(s)[1][2] <= kx[2])
    THEN <<Head(s)>> \o InsertSorted(x, kx, Tail(s))
    ELSE << <<kx, x>> >> \o s

\* sorted(seq, key=...) of a sequence of <<key, value>>
RECURSIVE SortKeyed(_)
SortKeyed(s) ==
    IF s = <<>> THEN <<>>
    ELSE InsertSorted(s[Len(s)][2], s[Len(s)][1], SortKeyed(SubSeq(s, 1, Len(s) - 1)))

\* sorted(rects, key=lambda r: (r[1], r[0]))
SortByYX(rects) ==
    [k \in 1..Len(rects) |->
        SortKeyed([i \in 1..Len(rects) |-> << <<rects[i][2], rects[i][1]>>, rects[i] >>])[k][2]]
\* sorted(row, key=lambda r: r[0])
SortByX(rects) ==
    [k \in 1..Len(rects) |->
        SortKeyed([i \in 1..Len(rects) |-> << <<rects[i][1], 0>>, rects[i] >>])[k][2]]

\* the clustering loop of _assign_row_col (table_detector.py:127-134)
RECURSIVE ClusterRows(_, _, _, _)
ClusterRows(rest, rows, current_row, row_y) ==
    IF rest = <<>> THEN Append(rows, SortByX(current_row))
    ELSE IF Head(rest)[2] - row_y < ROW_Y_THRESHOLD /\ row_y - Head(rest)[2] < ROW_Y_THRESHOLD
    THEN ClusterRows(Tail(rest), rows, Append(current_row, Head(rest)), row_y)
    ELSE ClusterRows(Tail(rest), Append(rows, SortByX(current_row)),
                     <<Head(rest)>>, Head(rest)[2])

\* the cells of row number row_idx (0-based), left to right, without text_hint
RowCells(row, row_idx) ==
    [c \in 1..Len(row) |->
        [row_idx |-> row_idx, col_idx |-> c - 1, x1 |-> row[c][1], y1 |-> row[c][2],
         x2 |-> row[c][3], y2 |-> row[c][4]]]

RECURSIVE Flatten(_)
Flatten(ss) == IF ss = <<>> THEN <<>> ELSE Head(ss) \o Flatten(Tail(ss))

\* _assign_row_col after rects_sorted = sorted(...) (table_detector.py:123-149):
\* the clustering, then the enumerate loops
AssignSorted(rects_sorted) ==
    Flatten([r \in 1..Len(ClusterRows(Tail(rects_sorted), <<>>, <<rects_sorted[1]>>,
                                      rects_sorted[1][2])) |->
                RowCells(ClusterRows(Tail(rects_sorted), <<>>, <<rects_sorted[1]>>,
                                     rects_sorted[1][2])[r], r - 1)])

\* rects: a sequence of <<x1, y1, x2, y2>>
_assign_row_col(rects) ==
    IF rects = <<>> THEN <<>> ELSE AssignSorted(SortByYX(rects))

\* w > 30 and h > 15 and area < img_area * 0.8 for the bounding rectangle
\* c = <<x, y, w, h>>
KeepContour(c) ==
    c[3] > 30 /\ c[4] > 15 /\ 10 * (c[3] * c[4]) < 8 * (IMG_H * IMG_W)

\* the loop over the contours (table_detector.py:105-112):
\* rects.append((x, y, x + w, y + h))
RECURSIVE ContourRects(_)
ContourRects(contours) ==
    IF contours = <<>> THEN <<>>
    ELSE (IF KeepContour(Head(contours))
          THEN << <<Head(contours)[1], Head(contours)[2],
                    Head(contours)[1] + Head(contours)[3],
                    Head(contours)[2] + Head(contours)[4]>> >>
          ELSE <<>>)
         \o ContourRects(Tail(contours))

\* fallback: what OpenCV does on the image: "raise" (a cv2.error), or the
\* bounding rectangles of the contours of the grid mask, in findContours' order
_detect_with_opencv(fallback) ==
    IF fallback.kind = "raise" THEN [raised |-> TRUE, error |-> fallback.error, cells |-> <<>>]
    ELSE [raised |-> FALSE, error |-> <<>>,
          cells |-> _assign_row_col(ContourRects(fallback.contours))]

\* the cells appended for the tr number row_idx (0-based) with texts tds
\* (table_detector.py:57-75), in a table of nrows = max(len(rows), 1) rows and
\* with ncols = max(col_count, 1); the divisions are those of int()
HtmlRow(tds, row_idx, nrows, ncols, bb) ==
    [c \in 1..Len(tds) |->
        [row_idx |-> row_idx, col_idx |-> c - 1,
         x1 |-> bb[1] + ((c - 1) * (bb[3] - bb[1])) \div ncols,
         y1 |-> bb[2] + (row_idx * (bb[4] - bb[2])) \div nrows,
         x2 |-> bb[1] + ((c - 1) * (bb[3] - bb[1])) \div ncols + (bb[3] - bb[1]) \div ncols,
         y2 |-> bb[2] + (row_idx * (bb[4] - bb[2])) \div nrows + (bb[4] - bb[2]) \div nrows,
         text_hint |-> tds[c]]]

\* html: the table markup as the sequence of its tr, each the sequence of the
\* texts of its td/th; table_bbox: <<tx1, ty1, tx2, ty2>>
_parse_table_html(html, table_bbox) ==
    Flatten([r \in 1..Len(html) |->
                HtmlRow(html[r], r - 1, Max(Len(html), 1), Max(Len(html[r]), 1),
                        table_bbox)])

NoTableError == <<"N", "o", " ", "t", "a", "b", "l", "e">>

\* if not cells: raise ValueError(...) (table_detector.py:39-41)
CellsOrRaise(cells) ==
    IF cells = <<>> THEN [raised |-> TRUE, error |-> NoTableError, cells |-> <<>>]
    ELSE [raised |-> FALSE, error |-> <<>>, cells |-> cells]

\* primary: what PPStructure does on the image: "raise" (the import or the
\* engine raises), or "regions" with has_table telling whether a region of
\* type "table" is among them, and that region's html and bbox
_detect_with_paddleocr(primary) ==
    IF primary.kind = "raise" THEN [raised |-> TRUE, error |-> primary.error, cells |-> <<>>]
    ELSE CellsOrRaise(IF primary.has_table
                      THEN _parse_table_html(primary.html, primary.bbox)
                      ELSE <<>>)

\* except Exception: return _detect_with_opencv(img) (table_detector.py:16-18)
FallBack(f) ==
    [raised |-> f.raised, error |-> f.error, cells |-> f.cells, fallback_calls |-> 1,
     primary_failed |-> TRUE]

\* a detect_table without its except branch: the primary's exception leaves it
TryPrimaryOnly(p, fallback) ==
    [raised |-> p.raised, error |-> p.error, cells |-> p.cells, fallback_calls |-> 0,
     primary_failed |-> p.raised]

\* try: return _detect_with_paddleocr(img) (table_detector.py:14-15) for the
\* outcome p of the primary, else the fallback
TryPrimary(p, fallback) ==
    IF ~p.raised
    THEN [raised |-> FALSE, error |-> <<>>, cells |-> p.cells, fallback_calls |-> 0,
          primary_failed |-> FALSE]
    ELSE FallBack(_detect_with_opencv(fallback))

\* fallback_calls counts the calls of _detect_with_opencv
detect_table(primary, fallback) == TryPrimary(_detect_with_paddleocr(primary), fallback)

\* ------------------------------------------------------------ cell_extractor

\* the entry appended for a cell clipped to <<x1, y1, x2, y2>>
\* (cell_extractor.py:85-98; field_context is left out)
Crop(cell, x1, y1, x2, y2) ==
    IF x2 <= x1 \/ y2 <= y1 THEN <<>>
    ELSE << [row_idx |-> cell.row_idx, col_idx |-> cell.col_idx,
             field_name |-> COLUMN_FIELD_MAP[cell.col_idx + 1],
             crop |-> [w |-> x2 - x1, h |-> y2 - y1],
             text_hint |-> IF "text_hint" \in DOMAIN cell THEN cell.text_hint ELSE <<>>,
             bbox |-> [x |-> x1, y |-> y1, width |-> x2 - x1, height |-> y2 - y1]] >>

\* one table cell of extract_cells' loop: <<>> when skipped, else <<entry>>
ExtractOne(cell) ==
    IF cell.row_idx = 0 THEN <<>>
    ELSE IF cell.col_idx + 1 \notin 1..Len(COLUMN_FIELD_MAP) THEN <<>>
    ELSE Crop(cell, Max(0, cell.x1), Max(0, cell.y1), Min(IMG_W, cell.x2),
              Min(IMG_H, cell.y2))

extract_cells(table_cells) ==
    Flatten([i \in 1..Len(table_cells) |-> ExtractOne(table_cells[i])])

\* ------------------------------------------------------------- schema_mapper

\* f"{n:02d}" for 0 <= n < 100
Format02(n) == <<DigitSeq[(n \div 10) + 1], DigitSeq[(n % 10) + 1]>>

DaysInMonth(y, m) ==
    IF m = 2 THEN (IF (y % 4 = 0 /\ y % 100 # 0) \/ y % 400 = 0 THEN 29 ELSE 28)
    ELSE IF m \in {4, 6, 9, 11} THEN 30 ELSE 31
\* datetime(y, m, d) does not raise ValueError
ValidDate(y, m, d) ==
    y \in 1..9999 /\ m \in 1..12 /\ d >= 1 /\ d <= DaysInMonth(y, m)

\* year = "20" + year if int(year) < 50 else "19" + year, for len(year) == 2
FullYear(year) ==
    IF Len(year) = 2
    THEN (IF IntOf(year) < 50 THEN <<"2", "0">> ELSE <<"1", "9">>) \o year
    ELSE year

\* a format that writes the month before the day
FormatDateMonthFirst(day, month, year) ==
    IF ValidDate(IntOf(year), IntOf(month), IntOf(day))
       /\ 2010 <= IntOf(year) /\ IntOf(year) <= 2030
    THEN Format02(IntOf(month)) \o <<"/">> \o Format02(IntOf(day)) \o <<"/">> \o year
    ELSE NoneVal

\* the try block of _parse_date (schema_mapper.py:114-119) for the groups
\* day, month and the completed year
FormatDate(day, month, year) ==
    IF ValidDate(IntOf(year), IntOf(month), IntOf(day))
       /\ 2010 <= IntOf(year) /\ IntOf(year) <= 2030
    THEN Format02(IntOf(day)) \o <<"/">> \o Format02(IntOf(month)) \o <<"/">> \o year
    ELSE NoneVal

\* _parse_date after m = re.match(...) (schema_mapper.py:110-121)
DateOfMatch(m) ==
    IF m.ok THEN FormatDate(m.day, m.month, FullYear(m.year)) ELSE NoneVal

_parse_date(raw) == IF raw = <<>> THEN NoneVal ELSE DateOfMatch(DateMatch(raw))

\* x or y for an Optional[str] x
OrElse(x, y) == IF x = NoneVal \/ x = <<>> THEN y ELSE x

\* the two-way normalisation of jenis_kelamin and status_nt
Normalise(raw, upper, first, a, second, b) ==
    IF upper \in first THEN a ELSE IF upper \in second THEN b ELSE raw

\* _parse_field after raw = raw.strip() (schema_mapper.py:67-100)
ParseStripped(field, raw) ==
    IF raw = <<>> THEN NoneVal
    ELSE IF field \in {"bb_lalu", "bb_sekarang", "tb"}
    THEN IF ParseFloat(ReplaceComma(raw)).ok THEN ReplaceComma(raw) ELSE raw
    ELSE IF field = "tanggal_lahir" THEN OrElse(_parse_date(raw), raw)
    ELSE IF field = "jenis_kelamin"
    THEN Normalise(raw, Upper(raw),
                   {<<"L">>, <<"L", "A", "K", "I">>,
                    <<"L", "A", "K", "I", "-", "L", "A", "K", "I">>, <<"P", "R", "I", "A">>},
                   <<"L">>,
                   {<<"P">>, <<"P", "E", "R", "E", "M", "P", "U", "A", "N">>,
                    <<"W", "A", "N", "I", "T", "A">>},
                   <<"P">>)
    ELSE IF field = "status_nt"
    THEN Normalise(raw, Upper(raw),
                   {<<"N">>, <<"N", "A", "I", "K">>}, <<"N">>,
                   {<<"T">>, <<"T", "I", "D", "A", "K">>,
                    <<"T", "I", "D", "A", "K", " ", "N", "A", "I", "K">>},
                   <<"T">>)
    ELSE raw

_parse_field(field, raw) == ParseStripped(field, Strip(raw))

\* d[k] = v on a dict kept as a function
Put(d, k, v) == [x \in (DOMAIN d) \cup {k} |-> IF x = k THEN v ELSE d[x]]
EmptyDict == [x \in {} |-> 0]

RECURSIVE SumOver(_, _)
SumOver(f, S) ==
    IF S = {} THEN 0
    ELSE LET x == CHOOSE y \in S : TRUE IN f[x] + SumOver(f, S \ {x})

\* round(total / n, 2) for n > 0, the quotient taken exactly
RoundDiv2(total, n) ==
    IF 2 * (total % (100 * n)) < 100 * n THEN (total \div (100 * n)) * 100
    ELSE IF 2 * (total % (100 * n)) > 100 * n THEN (total \div (100 * n) + 1) * 100
    ELSE IF (total \div (100 * n)) % 2 = 0 THEN (total \div (100 * n)) * 100
    ELSE (total \div (100 * n) + 1) * 100

\* rows[row_idx] = {"row_index": row_idx, "_confidences": {}, "_bboxes": {}}
NewRow(row_idx) ==
    [row_index |-> row_idx, _confidences |-> EmptyDict, _bboxes |-> EmptyDict,
     values |-> EmptyDict]

\* the body of map_to_schema's first loop for one cell (schema_mapper.py:40-50):
\* values holds row[field], _confidences holds row[f"{field}_confidence"] too
AddCell(row, cell) ==
    [row_index |-> row.row_index,
     _confidences |-> Put(row._confidences, cell.field_name, cell.confidence),
     _bboxes |-> Put(row._bboxes, cell.field_name, cell.bbox),
     values |-> Put(row.values, cell.field_name, _parse_field(cell.field_name, cell.text))]

\* the first loop of map_to_schema: rows is the dict row_idx -> row
RECURSIVE GroupCells(_, _)
GroupCells(cells, rows) ==
    IF cells = <<>> THEN rows
    ELSE GroupCells(Tail(cells),
                    Put(rows, Head(cells).row_idx,
                        AddCell(IF Head(cells).row_idx \in DOMAIN rows
                                THEN rows[Head(cells).row_idx]
                                ELSE NewRow(Head(cells).row_idx),
                                Head(cells))))

\* sorted(result, key=lambda r: r["row_index"]): row_index is the dict's key
RECURSIVE SortedRows(_, _)
SortedRows(rows, S) ==
    IF S = {} THEN <<>>
    ELSE LET k == CHOOSE x \in S : \A y \in S : x <= y
         IN  <<rows[k]>> \o SortedRows(rows, S \ {k})

\* round(sum(conf_values) / len(conf_values), 2) if conf_values else 0.0
ConfidenceAvg(_confidences) ==
    IF DOMAIN _confidences = {} THEN 0
    ELSE RoundDiv2(SumOver(_confidences, DOMAIN _confidences),
                   Cardinality(DOMAIN _confidences))

\* row["_confidence_avg"] = ... (schema_mapper.py:54-59)
WithAvg(row) ==
    [row_index |-> row.row_index, _confidences |-> row._confidences,
     _bboxes |-> row._bboxes, values |-> row.values,
     _confidence_avg |-> ConfidenceAvg(row._confidences)]

\* the second loop of map_to_schema and the final sort on the dict rows
Finish(rows) ==
    [i \in 1..Cardinality(DOMAIN rows) |-> WithAvg(SortedRows(rows, DOMAIN rows)[i])]

map_to_schema(recognized_cells) == Finish(GroupCells(recognized_cells, EmptyDict))

MinOf(S) == CHOOSE x \in S : \A y \in S : x <= y
MaxOf(S) == CHOOSE x \in S : \A y \in S : x >= y

\* the union of the cell bboxes bs (schema_mapper.py:169-182)
UnionBBox(bs) ==
    [x |-> MinOf({b.x : b \in bs}), y |-> MinOf({b.y : b \in bs}),
     width |-> MaxOf({b.x + b.width : b \in bs}) - MinOf({b.x : b \in bs}),
     height |-> MaxOf({b.y + b.height : b \in bs}) - MinOf({b.y : b \in bs})]

RowBBox(row) == UnionBBox({row._bboxes[f] : f \in DOMAIN row._bboxes})

\* row.get(k)
Get(d, k) == IF k \in DOMAIN d THEN d[k] ELSE NoneVal

\* the record write_extracted_rows builds for one row (schema_mapper.py:148-184)
Record(document_id, row) ==
    [document_id |-> document_id, row_index |-> row.row_index,
     is_reviewed |-> FALSE, is_approved |-> FALSE,
     data |-> [f \in FieldNames |-> Get(row.values, f)],
     confidence |-> [f \in FieldNames |-> Get(row._confidences, f)],
     bbox |-> RowBBox(row)]

Records(document_id, rows) == [i \in 1..Len(rows) |-> Record(document_id, rows[i])]

\* avg_conf of run_pipeline (main.py:120-123) under round(avg_conf, 2)
OverallConfidence(rows) ==
    IF rows = <<>> THEN 0
    ELSE RoundDiv2(SumOver([i \in 1..Len(rows) |-> rows[i]._confidence_avg],
                           1..Len(rows)), Len(rows))

\* ----------------------------------------------------- text_recognizer: tasks

\* {**cell, "text": text, "confidence": confidence}
WithText(cell, text, confidence) ==
    [row_idx |-> cell.row_idx, col_idx |-> cell.col_idx, field_name |-> cell.field_name,
     crop |-> cell.crop, text_hint |-> cell.text_hint, bbox |-> cell.bbox,
     text |-> text, confidence |-> confidence]

\* {**cell, "text": "", "confidence": 0.0, "error": str(result)}
WithError(cell, error) ==
    [row_idx |-> cell.row_idx, col_idx |-> cell.col_idx, field_name |-> cell.field_name,
     crop |-> cell.crop, text_hint |-> cell.text_hint, bbox |-> cell.bbox,
     text |-> <<>>, confidence |-> 0, error |-> error]

\* crop.size == 0
CropEmpty(cell) == cell.crop.w * cell.crop.h = 0

\* _recognize_cell on an empty crop (text_recognizer.py:48-49)
EmptyCropResult(cell) == WithText(cell, <<>>, 0)

\* _recognize_cell after the model answered response_text
\* (text_recognizer.py:71-80): raw_text = response.text.strip() if response.text else ""
ResponseResult(cell, response_text) ==
    WithText(cell, Strip(response_text),
             _calculate_confidence(Strip(response_text), cell.field_name, cell.text_hint))

\* a task of recognize_cells: recognize_one(cell) under gather
WaitingTask == [state |-> "waiting", exc |-> FALSE, value |-> NoneVal]
InFlightTask == [state |-> "in_flight", exc |-> FALSE, value |-> NoneVal]
ReturnedTask(value) == [state |-> "settled", exc |-> FALSE, value |-> value]
RaisedTask(error) == [state |-> "settled", exc |-> TRUE, value |-> error]

\* the calls of the external model that hold the semaphore
InFlight(ts) == Cardinality({i \in 1..Len(ts) : ts[i].state = "in_flight"})

\* a semaphore that admits one call more
SemaphoreFreeOneMore(ts) == InFlight(ts) <= SEMAPHORE_LIMIT

\* async with semaphore: the acquire goes through while the counter is positive
SemaphoreFree(ts) == InFlight(ts) < SEMAPHORE_LIMIT

\* a wait that ends with the first task that is settled
GatherDoneFirst(ts) == ts = <<>> \/ \E i \in 1..Len(ts) : ts[i].state = "settled"

\* asyncio.gather(*tasks, return_exceptions=True) has a result once every task
\* is settled ...
GatherDone(ts) == \A i \in 1..Len(ts) : ts[i].state = "settled"

\* a gather without return_exceptions=True: a task's exception is raised to the
\* caller
GatherRaising(ts) ==
    IF \E i \in 1..Len(ts) : ts[i].exc
    THEN [raised |-> TRUE, error |-> ts[CHOOSE i \in 1..Len(ts) : ts[i].exc].value,
          results |-> <<>>]
    ELSE [raised |-> FALSE, error |-> <<>>, results |-> [i \in 1..Len(ts) |-> ts[i]]]

\* ... and the result lists the tasks' outcomes in the order of the tasks;
\* with return_exceptions=True no exception is raised to the caller
Gather(ts) ==
    [raised |-> FALSE, error |-> <<>>, results |-> [i \in 1..Len(ts) |-> ts[i]]]

\* one iteration of the zip loop (text_recognizer.py:37-40)
OutputEntry(cell, result) ==
    IF result.exc THEN WithError(cell, result.value) ELSE result.value

\* the zip loop of recognize_cells over (cell_data, results)
BuildOutput(cell_data, results) ==
    [i \in 1..Min(Len(cell_data), Len(results)) |-> OutputEntry(cell_data[i], results[i])]

\* ------------------------------------------------------------- main: errors

ErrShort == <<"b", "o", "o", "m">>
\* an error text longer than the limit
ErrLong == [i \in 1..(ERROR_MESSAGE_LIMIT + 1) |-> IF i = 1 THEN "A" ELSE "z"]
\* what a failing update of the status table raises
UpdateError == <<"u", "p", "d", "a", "t", "e">>
\* what a failing insert into the row table raises
StoreError == <<"s", "t", "o", "r", "e">>
\* what the layout model raises
PrimaryError == <<"p", "a", "d", "d", "l", "e">>
\* what OpenCV raises
FallbackError == <<"c", "v", "2">>
\* what a failing call of the recognition model raises
ModelError == <<"g", "e", "m", "i", "n", "i">>

\* the keyword arguments of the except branch's update_status (main.py:138-143)
FailedUpdate(e) ==
    [status |-> "failed", error_message |-> Prefix(e, ERROR_MESSAGE_LIMIT)]

\* update_data = {"status": status, **kwargs} applied to the document's row
Update(rec, update_data) ==
    [k \in DOMAIN rec |-> IF k \in DOMAIN update_data THEN update_data[k] ELSE rec[k]]

\* update_status(supabase, document_id, ...) on the table db
update_status(db, id, update_data) == [db EXCEPT ![id] = Update(@, update_data)]

\* the first k of the updates ws, in order
RECURSIVE ApplyUpdates(_, _, _, _)
ApplyUpdates(db, id, ws, k) ==
    IF k = 0 THEN db
    ELSE update_status(ApplyUpdates(db, id, ws, k - 1), id, ws[k])

\* a step that issues the updates ws in which the f-th raises (f = 0: none does)
AfterUpdates(db, id, ws, f) ==
    ApplyUpdates(db, id, ws, IF f = 0 THEN Len(ws) ELSE f - 1)

\* ------------------------------------------------------------------- state

VARIABLES
    numRuns,            \* POST /process requests accepted so far
    pc,                 \* run -> where its run_pipeline task stands
    document_id,        \* run -> the request's document_id
    table_cells,        \* run -> run_pipeline's local table_cells
    cell_crops,         \* run -> run_pipeline's local cell_crops (cell_data)
    tasks,              \* run -> the tasks of its recognize_cells call
    recognized,         \* run -> what recognize_cells returned
    caught,             \* run -> the exception the except branch caught
    handler,            \* run -> what became of the except branch's update
    stages,             \* run -> the stages it started, in order
    detect_log,         \* run -> what detect_table did for it
    ocr_documents,      \* the status table: document -> row
    ocr_extracted_rows, \* the row table: the batches inserted, in order
    fn_args,            \* the arguments of a function applied on its own
    fn_result           \* and its result

vars ==
    <<numRuns, pc, document_id, table_cells, cell_crops, tasks, recognized, caught,
      handler, stages, detect_log, ocr_documents, ocr_extracted_rows, fn_args,
      fn_result>>

Runs == 1..MaxRuns
Docs == {"doc1", "doc2"}

\* the ocr_status enum in the order of the pipeline (main.py:73-76)
StatusOrder ==
    <<"uploaded", "preprocessing", "detecting_table", "extracting_cells",
      "recognizing_text", "awaiting_review">>

\* a document as the upload left it
UploadedRow ==
    [status |-> "uploaded", error_message |-> NoneVal, preprocessed_path |-> NoneVal,
     table_detection_result |-> NoneVal, cell_extraction_result |-> NoneVal,
     overall_confidence |-> NoneVal, ocr_structured_result |-> NoneVal]

\* detect_table has not been called
NoDetectLog ==
    [called |-> FALSE, primary_failed |-> FALSE, fallback_calls |-> 0, raised |-> FALSE,
     error |-> <<>>, cells |-> <<>>, fallback_cells |-> <<>>, cell_count |-> 0]

NotScored == [done |-> FALSE, value |-> 0]

\* ------------------------------------------------------ what the boundary does

Ok == [raised |-> FALSE, error |-> <<>>]
Raise(e) == [raised |-> TRUE, error |-> e]

\* supabase.storage...download(storage_path)
DownloadOutcomes == {Ok, Raise(ErrShort)}
\* preprocess_image in its thread (the upload of the normalized image included)
PreprocessOutcomes == {Ok, Raise(ErrLong)}
\* extract_cells in its thread
ExtractOutcomes == {Ok, Raise(ErrShort)}
\* supabase.table("ocr_extracted_rows").insert(records).execute()
InsertOutcomes == {Ok, Raise(StoreError)}

\* a header of two th and one data row of one td
HeaderAndOneRow ==
    << <<<<"N", "a", "m", "a">>, <<"T", "g", "l">>>>, <<<<"S", "i", "t", "i">>>> >>

\* what PPStructure does
PrimaryOutcomes ==
    {[kind |-> "raise", error |-> PrimaryError, has_table |-> FALSE, html |-> <<>>,
      bbox |-> <<0, 0, IMG_W, IMG_H>>],
     [kind |-> "regions", error |-> <<>>, has_table |-> FALSE, html |-> <<>>,
      bbox |-> <<0, 0, IMG_W, IMG_H>>],
     [kind |-> "regions", error |-> <<>>, has_table |-> TRUE, html |-> <<>>,
      bbox |-> <<0, 0, IMG_W, IMG_H>>],
     [kind |-> "regions", error |-> <<>>, has_table |-> TRUE, html |-> HeaderAndOneRow,
      bbox |-> <<0, 0, IMG_W, IMG_H>>]}

\* what OpenCV finds: contours <<x, y, w, h>> in findContours' order; the
\* whole image and a speck do not pass the filter
GridContours ==
    <<<<0, 0, IMG_W, IMG_H>>, <<130, 22, 100, 40>>, <<20, 68, 100, 40>>,
      <<5, 5, 20, 10>>, <<20, 20, 100, 40>>>>
FallbackOutcomes ==
    {[kind |-> "raise", error |-> FallbackError, contours |-> <<>>],
     [kind |-> "contours", error |-> <<>>, contours |-> <<>>],
     [kind |-> "contours", error |-> <<>>,
      contours |-> <<<<0, 0, IMG_W, IMG_H>>, <<5, 5, 20, 10>>>>],
     [kind |-> "contours", error |-> <<>>, contours |-> GridContours]}

\* response.text of the recognition model
ResponseTexts == {<<>>, <<" ", "S", "i", "t", "i">>}

\* -------------------------------------------------------------- main: process

\* a storage path as its "/"-separated segments
StoragePath(d) == <<"uploads", d, "scan.jpg">>

\* original_path.split("/", 1): 'uploads/abc/file.jpg' -> 'preprocessed/abc/file.jpg'
_make_preprocessed_path(original_path) ==
    IF Len(original_path) >= 2 THEN <<"preprocessed">> \o Tail(original_path)
    ELSE <<"preprocessed">> \o original_path

\* POST /process with a good (or no required) X-Worker-Secret:
\* asyncio.create_task(run_pipeline(document_id, storage_path))
Process(d) ==
    /\ numRuns < MaxRuns
    /\ numRuns' = numRuns + 1
    /\ pc' = [pc EXCEPT ![numRuns + 1] = "start"]
    /\ document_id' = [document_id EXCEPT ![numRuns + 1] = d]
    /\ UNCHANGED <<table_cells, cell_crops, tasks, recognized, caught, handler, stages,
                   detect_log, ocr_documents, ocr_extracted_rows, fn_args, fn_result>>

\* POST /process with a wrong X-Worker-Secret: 401, no task
Unauthorized ==
    /\ numRuns < MaxRuns
    /\ UNCHANGED vars

\* ---------------------------------------------------------- main: run_pipeline

\* the locals table_cells, cell_crops and the recognizer's tasks of run r
SetLocals(r, tc, cc, ts) ==
    /\ table_cells' = [table_cells EXCEPT ![r] = tc]
    /\ cell_crops' = [cell_crops EXCEPT ![r] = cc]
    /\ tasks' = [tasks EXCEPT ![r] = ts]

\* except Exception as e: update_status(..., "failed", error_message=str(e)[:1000])
\* on the table db the run has left, after the stages st; accepted = FALSE:
\* that update raises itself, and the exception leaves the task
Except(r, db, e, accepted, st) ==
    /\ pc' = [pc EXCEPT ![r] = "done"]
    /\ caught' = [caught EXCEPT ![r] = e]
    /\ handler' = [handler EXCEPT ![r] = IF accepted THEN "accepted" ELSE "rejected"]
    /\ stages' = [stages EXCEPT ![r] = st]
    /\ ocr_documents' =
           IF accepted THEN update_status(db, document_id[r], FailedUpdate(e)) ELSE db
    /\ SetLocals(r, <<>>, <<>>, <<>>)

\* the run goes on to the await of the next stage
Continue(r, db, next_pc, st, tc, cc, ts) ==
    /\ pc' = [pc EXCEPT ![r] = next_pc]
    /\ stages' = [stages EXCEPT ![r] = st]
    /\ ocr_documents' = db
    /\ SetLocals(r, tc, cc, ts)
    /\ UNCHANGED <<caught, handler>>

\* a stage's call has come back as out; then the updates ws are issued, the
\* f-th of them raising (f = 0: none), and the next stage is started
AfterStage(r, out, ws, f, accepted, next_pc, stage, tc, cc, ts) ==
    IF out.raised
    THEN Except(r, ocr_documents, out.error, accepted, stages[r])
    ELSE IF f > 0
    THEN Except(r, AfterUpdates(ocr_documents, document_id[r], ws, f), UpdateError,
                accepted, stages[r])
    ELSE Continue(r, AfterUpdates(ocr_documents, document_id[r], ws, 0), next_pc,
                  Append(stages[r], stage), tc, cc, ts)

\* main.py:78-88: the download and the first update, up to the first await
Start(r) ==
    /\ pc[r] = "start"
    /\ \E dl \in DownloadOutcomes, f \in 0..1, accepted \in BOOLEAN :
          IF dl.raised
          THEN Except(r, ocr_documents, dl.error, accepted, <<"download">>)
          ELSE IF f > 0
          THEN Except(r, ocr_documents, UpdateError, accepted, <<"download">>)
          ELSE Continue(r, update_status(ocr_documents, document_id[r],
                                         [status |-> "preprocessing"]),
                        "preprocess", <<"download", "preprocess">>, <<>>, <<>>, <<>>)
    /\ UNCHANGED <<numRuns, document_id, recognized, detect_log, ocr_extracted_rows,
                   fn_args, fn_result>>

\* main.py:86-93: preprocess_image returns or raises in its thread; two updates;
\* detect_table is handed to a thread
PreprocessDone(r) ==
    /\ pc[r] = "preprocess"
    /\ \E out \in PreprocessOutcomes, f \in 0..2, accepted \in BOOLEAN :
          AfterStage(r, out,
                     <<[status |-> "preprocessing",
                        preprocessed_path |->
                            _make_preprocessed_path(StoragePath(document_id[r]))],
                       [status |-> "detecting_table"]>>,
                     f, accepted, "detect", "detect", <<>>, <<>>, <<>>)
    /\ UNCHANGED <<numRuns, document_id, recognized, detect_log, ocr_extracted_rows,
                   fn_args, fn_result>>

\* what detect_table did with the image, kept for the run: res is its outcome,
\* f the outcome of the fallback strategy on the same image
DetectLog(res, f) ==
    [called |-> TRUE, primary_failed |-> res.primary_failed,
     fallback_calls |-> res.fallback_calls, raised |-> res.raised, error |-> res.error,
     cells |-> res.cells, fallback_cells |-> f.cells, cell_count |-> Len(res.cells)]

\* main.py:93-103 for the outcome res of detect_table
AfterDetect(r, res, f, accepted) ==
    AfterStage(r, res,
               <<[status |-> "detecting_table",
                  table_detection_result |-> [cell_count |-> Len(res.cells)]],
                 [status |-> "extracting_cells"]>>,
               f, accepted, "extract", "extract", res.cells, <<>>, <<>>)

\* main.py:93-103: detect_table returns or raises in its thread; two updates;
\* extract_cells is handed to a thread
DetectDone(r) ==
    /\ pc[r] = "detect"
    /\ \E primary \in PrimaryOutcomes, fallback \in FallbackOutcomes, f \in 0..2,
          accepted \in BOOLEAN :
          /\ AfterDetect(r, detect_table(primary, fallback), f, accepted)
          /\ detect_log' = [detect_log EXCEPT ![r] =
                               DetectLog(detect_table(primary, fallback),
                                         _detect_with_opencv(fallback))]
    /\ UNCHANGED <<numRuns, document_id, recognized, ocr_extracted_rows, fn_args,
                   fn_result>>

\* main.py:103-113 for the crops extract_cells returned
AfterExtract(r, out, crops, f, accepted) ==
    AfterStage(r, out,
               <<[status |-> "extracting_cells",
                  cell_extraction_result |-> [crop_count |-> Len(crops)]],
                 [status |-> "recognizing_text"]>>,
               f, accepted, "recognize", "recognize", table_cells[r], crops,
               [i \in 1..Len(crops) |-> WaitingTask])

\* main.py:103-113: extract_cells returns or raises in its thread; two updates;
\* recognize_cells creates one task per cell and awaits their gather
ExtractDone(r) ==
    /\ pc[r] = "extract"
    /\ \E out \in ExtractOutcomes, f \in 0..2, accepted \in BOOLEAN :
          AfterExtract(r, out, extract_cells(table_cells[r]), f, accepted)
    /\ UNCHANGED <<numRuns, document_id, recognized, detect_log, ocr_extracted_rows,
                   fn_args, fn_result>>

\* ---------------------------------------------- text_recognizer: recognize_one

RecognizerUnchanged ==
    UNCHANGED <<numRuns, pc, document_id, table_cells, cell_crops, recognized, caught,
                handler, stages, detect_log, ocr_documents, ocr_extracted_rows, fn_args,
                fn_result>>

\* recognize_one(cell) enters "async with semaphore" and _recognize_cell runs
\* up to its await: an empty crop is answered at once, any other crop is sent
\* to the model.  The tasks reach the semaphore in the order of the cells, and
\* the semaphore wakes its waiters in that order.
TaskStart(r, i) ==
    /\ pc[r] = "recognize"
    /\ tasks[r][i].state = "waiting"
    /\ \A j \in 1..(i - 1) : tasks[r][j].state # "waiting"
    /\ SemaphoreFree(tasks[r])
    /\ tasks' = [tasks EXCEPT ![r][i] =
                    IF CropEmpty(cell_crops[r][i])
                    THEN ReturnedTask(EmptyCropResult(cell_crops[r][i]))
                    ELSE InFlightTask]
    /\ RecognizerUnchanged

\* model.generate_content returns; the semaphore is released
CallReturns(r, i) ==
    /\ pc[r] = "recognize"
    /\ tasks[r][i].state = "in_flight"
    /\ \E t \in ResponseTexts :
          tasks' = [tasks EXCEPT ![r][i] = ReturnedTask(ResponseResult(cell_crops[r][i], t))]
    /\ RecognizerUnchanged

\* model.generate_content (or response.text) raises; the semaphore is released
CallRaises(r, i) ==
    /\ pc[r] = "recognize"
    /\ tasks[r][i].state = "in_flight"
    /\ tasks' = [tasks EXCEPT ![r][i] = RaisedTask(ModelError)]
    /\ RecognizerUnchanged

\* the last update of run_pipeline (main.py:126-135)
AwaitingReview(rows) ==
    [status |-> "awaiting_review", overall_confidence |-> OverallConfidence(rows),
     ocr_structured_result |->
         [row_count |-> Len(rows), avg_confidence |-> OverallConfidence(rows)]]

\* main.py:120-135: the last update raises (f = 1) or ends the run
Finalize(r, update_data, f, accepted, st) ==
    IF f > 0 THEN Except(r, ocr_documents, UpdateError, accepted, st)
    ELSE /\ pc' = [pc EXCEPT ![r] = "done"]
         /\ stages' = [stages EXCEPT ![r] = st]
         /\ ocr_documents' = update_status(ocr_documents, document_id[r], update_data)
         /\ SetLocals(r, <<>>, <<>>, <<>>)
         /\ UNCHANGED <<caught, handler>>

\* a write_extracted_rows without "if not rows: return": the insert is issued
\* for an empty list of records too
MapAndWriteAlways(r, rows, ins, f, accepted) ==
    IF ins.raised
    THEN /\ Except(r, ocr_documents, ins.error, accepted, Append(stages[r], "map_write"))
         /\ UNCHANGED ocr_extracted_rows
    ELSE /\ ocr_extracted_rows' =
                Append(ocr_extracted_rows,
                       [run |-> r, records |-> Records(document_id[r], rows)])
         /\ Finalize(r, AwaitingReview(rows), f, accepted, Append(stages[r], "map_write"))

\* write_extracted_rows(supabase, document_id, rows): no insert without rows,
\* else one insert of all the records, which may raise (main.py:117)
MapAndWrite(r, rows, ins, f, accepted) ==
    IF rows # <<>> /\ ins.raised
    THEN /\ Except(r, ocr_documents, ins.error, accepted, Append(stages[r], "map_write"))
         /\ UNCHANGED ocr_extracted_rows
    ELSE /\ ocr_extracted_rows' =
                IF rows = <<>> THEN ocr_extracted_rows
                ELSE Append(ocr_extracted_rows,
                            [run |-> r, records |-> Records(document_id[r], rows)])
         /\ Finalize(r, AwaitingReview(rows), f, accepted, Append(stages[r], "map_write"))

\* main.py:113-116 for the outcome g of the gather
AfterGather(r, g, ins, f, accepted) ==
    IF g.raised
    THEN /\ Except(r, ocr_documents, g.error, accepted, stages[r])
         /\ UNCHANGED ocr_extracted_rows
    ELSE MapAndWrite(r, map_to_schema(BuildOutput(cell_crops[r], g.results)), ins, f,
                     accepted)

\* main.py:113-135: recognize_cells returns; map_to_schema; write_extracted_rows;
\* the last update
RecognizeDone(r) ==
    /\ pc[r] = "recognize"
    /\ GatherDone(tasks[r])
    /\ \E ins \in InsertOutcomes, f \in 0..1, accepted \in BOOLEAN :
          AfterGather(r, Gather(tasks[r]), ins, f, accepted)
    /\ UNCHANGED <<numRuns, document_id, recognized, detect_log, fn_args, fn_result>>

\* ------------------------------------------------------------ specification

Init ==
    /\ numRuns = 0
    /\ pc = [r \in Runs |-> "idle"]
    /\ document_id = [r \in Runs |-> NoneVal]
    /\ table_cells = [r \in Runs |-> <<>>]
    /\ cell_crops = [r \in Runs |-> <<>>]
    /\ tasks = [r \in Runs |-> <<>>]
    /\ recognized = [r \in Runs |-> <<>>]
    /\ caught = [r \in Runs |-> NoneVal]
    /\ handler = [r \in Runs |-> "none"]
    /\ stages = [r \in Runs |-> <<>>]
    /\ detect_log = [r \in Runs |-> NoDetectLog]
    /\ ocr_documents = [d \in Docs |-> UploadedRow]
    /\ ocr_extracted_rows = <<>>
    /\ fn_args = NoneVal
    /\ fn_result = NotScored

\* the steps of the run_pipeline task r
RunStep(r) ==
    \/ Start(r)
    \/ PreprocessDone(r)
    \/ DetectDone(r)
    \/ ExtractDone(r)
    \/ \E i \in 1..Len(tasks[r]) : TaskStart(r, i)
    \/ \E i \in 1..Len(tasks[r]) : CallReturns(r, i)
    \/ \E i \in 1..Len(tasks[r]) : CallRaises(r, i)
    \/ RecognizeDone(r)

Next ==
    \/ \E d \in Docs : Process(d)
    \/ Unauthorized
    \/ \E r \in Runs : RunStep(r)

Spec == Init /\ [][Next]_vars

\* ------------------------------------------- one recognize_cells call on its own

\* the cell number idx of a table of three columns, in reading order
RecCell(idx, is_empty) ==
    [row_idx |-> 1 + (idx - 1) \div 3, col_idx |-> (idx - 1) % 3,
     field_name |-> COLUMN_FIELD_MAP[((idx - 1) % 3) + 1],
     crop |-> IF is_empty THEN [w |-> 0, h |-> 0] ELSE [w |-> 100, h |-> 40],
     text_hint |-> IF idx % 2 = 0 THEN <<"S", "i", "t", "i">> ELSE <<>>,
     bbox |-> [x |-> 20 + 110 * ((idx - 1) % 3), y |-> 68 + 48 * ((idx - 1) \div 3),
               width |-> 100, height |-> 40]]

\* the arguments cell_data of the call: up to MaxCells cells in reading order,
\* or in the reverse order with an empty crop in the second place
RecInputs ==
    {[k \in 1..n |-> RecCell(k, FALSE)] : n \in 0..MaxCells}
    \cup {[k \in 1..n |-> RecCell(n + 1 - k, k = 2)] : n \in 2..MaxCells}

\* results = await asyncio.gather(...) has come back as g; the zip loop and
\* the return (text_recognizer.py:33-42)
ReturnWith(r, g) ==
    IF g.raised
    THEN /\ pc' = [pc EXCEPT ![r] = "raised"]
         /\ caught' = [caught EXCEPT ![r] = g.error]
         /\ UNCHANGED recognized
    ELSE /\ pc' = [pc EXCEPT ![r] = "returned"]
         /\ recognized' = [recognized EXCEPT ![r] = BuildOutput(cell_crops[r], g.results)]
         /\ UNCHANGED caught

\* recognize_cells returns to its caller (text_recognizer.py:33-42)
RecognizeReturn(r) ==
    /\ pc[r] = "recognize"
    /\ GatherDone(tasks[r])
    /\ ReturnWith(r, Gather(tasks[r]))
    /\ UNCHANGED <<numRuns, document_id, table_cells, cell_crops, tasks, handler, stages,
                   detect_log, ocr_documents, ocr_extracted_rows, fn_args, fn_result>>

\* recognize_cells(cell_data) has created its tasks and awaits their gather
InitRec ==
    /\ numRuns = 1
    /\ pc = [r \in Runs |-> IF r = 1 THEN "recognize" ELSE "idle"]
    /\ document_id = [r \in Runs |-> IF r = 1 THEN "doc1" ELSE NoneVal]
    /\ table_cells = [r \in Runs |-> <<>>]
    /\ \E cell_data \in RecInputs :
          /\ cell_crops = [r \in Runs |-> IF r = 1 THEN cell_data ELSE <<>>]
          /\ tasks = [r \in Runs |->
                         IF r = 1 THEN [i \in 1..Len(cell_data) |-> WaitingTask] ELSE <<>>]
    /\ recognized = [r \in Runs |-> <<>>]
    /\ caught = [r \in Runs |-> NoneVal]
    /\ handler = [r \in Runs |-> "none"]
    /\ stages = [r \in Runs |-> <<>>]
    /\ detect_log = [r \in Runs |-> NoDetectLog]
    /\ ocr_documents = [d \in Docs |-> UploadedRow]
    /\ ocr_extracted_rows = <<>>
    /\ fn_args = NoneVal
    /\ fn_result = NotScored

NextRec ==
    \/ \E i \in 1..Len(tasks[1]) : TaskStart(1, i)
    \/ \E i \in 1..Len(tasks[1]) : CallReturns(1, i)
    \/ \E i \in 1..Len(tasks[1]) : CallRaises(1, i)
    \/ RecognizeReturn(1)

SpecRec == InitRec /\ [][NextRec]_vars

\* --------------------------------------- the confidence of one cell on its own

\* texts the recognition model answers with
ConfTexts ==
    {<<>>, <<" ", "S", "i", "t", "i">>, <<"S", "1", "t", "1">>, <<"8", ".", "5">>,
     <<"8", ",", "5">>, <<"3", "1">>, <<"1", "3", "1">>, <<"0", ".", "5">>,
     <<"7", "5">>, <<"a", "b", "c">>, <<"L">>, <<"p">>, <<"N">>, <<"X">>,
     <<"5", "-", "3", "-", "2", "2">>, <<"n", "a", "n">>, <<"1", "e", "1">>,
     <<"-", "3">>}

\* no hint, a hint that differs, and the text in capitals with a blank
ConfHints(text) == {<<>>, <<"z", "z">>, Upper(Strip(text)) \o <<" ">>}

\* the cell a confidence is computed for
ConfCell(field_name, hint, is_empty) ==
    [row_idx |-> 1, col_idx |-> 0, field_name |-> field_name,
     crop |-> IF is_empty THEN [w |-> 0, h |-> 0] ELSE [w |-> 100, h |-> 40],
     text_hint |-> hint, bbox |-> [x |-> 20, y |-> 68, width |-> 100, height |-> 40]]

\* path: the model answered text ("response"), the crop was empty
\* ("empty_crop"), or the call raised ("failure"); field_name: a field of the
\* form or a name that is none of them
ConfInputs ==
    {[path |-> "response", text |-> t, field_name |-> f, hint |-> h] :
        t \in ConfTexts, f \in FieldNames \cup {"catatan"}, h \in UNION {ConfHints(x) : x \in ConfTexts}}
    \cup {[path |-> p, text |-> <<>>, field_name |-> f, hint |-> h] :
            p \in {"empty_crop", "failure"}, f \in {"nama_anak", "tb"},
            h \in {<<>>, <<"z", "z">>}}

\* the confidence of the output entry of recognize_cells on the path a.path
ConfidenceOf(a) ==
    IF a.path = "response"
    THEN ResponseResult(ConfCell(a.field_name, a.hint, FALSE), a.text).confidence
    ELSE IF a.path = "empty_crop"
    THEN EmptyCropResult(ConfCell(a.field_name, a.hint, TRUE)).confidence
    ELSE OutputEntry(ConfCell(a.field_name, a.hint, FALSE), RaisedTask(ModelError)).confidence

InitConf ==
    /\ numRuns = 0
    /\ pc = [r \in Runs |-> "idle"]
    /\ document_id = [r \in Runs |-> NoneVal]
    /\ table_cells = [r \in Runs |-> <<>>]
    /\ cell_crops = [r \in Runs |-> <<>>]
    /\ tasks = [r \in Runs |-> <<>>]
    /\ recognized = [r \in Runs |-> <<>>]
    /\ caught = [r \in Runs |-> NoneVal]
    /\ handler = [r \in Runs |-> "none"]
    /\ stages = [r \in Runs |-> <<>>]
    /\ detect_log = [r \in Runs |-> NoDetectLog]
    /\ ocr_documents = [d \in Docs |-> UploadedRow]
    /\ ocr_extracted_rows = <<>>
    /\ fn_args \in ConfInputs
    /\ fn_result = NotScored

\* the confidence is computed
Score ==
    /\ ~fn_result.done
    /\ fn_result' = [done |-> TRUE, value |-> ConfidenceOf(fn_args)]
    /\ UNCHANGED <<numRuns, pc, document_id, table_cells, cell_crops, tasks, recognized,
                   caught, handler, stages, detect_log, ocr_documents,
                   ocr_extracted_rows, fn_args>>

SpecConf == InitConf /\ [][Score]_vars


\* ------------------------------------------------- map_to_schema on its own

\* the recognized cells map_to_schema is given: cells of two rows whose call
\* answered nothing, answered a name, or raised
MapInputs ==
    UNION {[1..n ->
               {ResponseResult(RecCell(idx, FALSE), t) :
                    idx \in 1..4, t \in ResponseTexts}
               \cup {OutputEntry(RecCell(idx, FALSE), RaisedTask(ModelError)) :
                        idx \in 1..4}] :
           n \in 0..MaxMapCells}

InitMap ==
    /\ numRuns = 0
    /\ pc = [r \in Runs |-> "idle"]
    /\ document_id = [r \in Runs |-> NoneVal]
    /\ table_cells = [r \in Runs |-> <<>>]
    /\ cell_crops = [r \in Runs |-> <<>>]
    /\ tasks = [r \in Runs |-> <<>>]
    /\ recognized = [r \in Runs |-> <<>>]
    /\ caught = [r \in Runs |-> NoneVal]
    /\ handler = [r \in Runs |-> "none"]
    /\ stages = [r \in Runs |-> <<>>]
    /\ detect_log = [r \in Runs |-> NoDetectLog]
    /\ ocr_documents = [d \in Docs |-> UploadedRow]
    /\ ocr_extracted_rows = <<>>
    /\ fn_args \in MapInputs
    /\ fn_result = NotScored

\* rows = map_to_schema(recognized) (main.py:116)
MapRows ==
    /\ ~fn_result.done
    /\ fn_result' = [done |-> TRUE, value |-> map_to_schema(fn_args)]
    /\ UNCHANGED <<numRuns, pc, document_id, table_cells, cell_crops, tasks, recognized,
                   caught, handler, stages, detect_log, ocr_documents,
                   ocr_extracted_rows, fn_args>>

SpecMap == InitMap /\ [][MapRows]_vars

\* ---------------------------------------------- the birth-date field on its own

\* texts of the tanggal_lahir cell as the recognizer delivers them (stripped):
\* day, separator, month, separator, year and a rest, with days and months
\* that no calendar has, years of 1 to 5 digits inside and outside the window,
\* and texts that are no date
DateInputs ==
    {d \o <<s1>> \o m \o <<s2>> \o y \o rest :
        d \in {<<"5">>, <<"0", "5">>, <<"2", "9">>, <<"3", "1">>, <<"0">>,
               <<"1", "2", "3">>},
        s1 \in {"/", "-", ".", ":"},
        m \in {<<"3">>, <<"0", "2">>, <<"2">>, <<"1", "3">>},
        s2 \in {"/", "-", "."},
        y \in {<<"2", "2">>, <<"2", "0", "2", "2">>, <<"2", "4">>,
               <<"1", "9", "9", "5">>, <<"7", "5">>, <<"3", "5">>,
               <<"0", "2", "2">>, <<"2", "0", "2", "2", "1">>, <<"9">>},
        rest \in {<<>>, <<"x">>}}
    \cup {<<>>, <<"a", "b", "c">>, <<"5", "-", "3">>}

InitDate ==
    /\ numRuns = 0
    /\ pc = [r \in Runs |-> "idle"]
    /\ document_id = [r \in Runs |-> NoneVal]
    /\ table_cells = [r \in Runs |-> <<>>]
    /\ cell_crops = [r \in Runs |-> <<>>]
    /\ tasks = [r \in Runs |-> <<>>]
    /\ recognized = [r \in Runs |-> <<>>]
    /\ caught = [r \in Runs |-> NoneVal]
    /\ handler = [r \in Runs |-> "none"]
    /\ stages = [r \in Runs |-> <<>>]
    /\ detect_log = [r \in Runs |-> NoDetectLog]
    /\ ocr_documents = [d \in Docs |-> UploadedRow]
    /\ ocr_extracted_rows = <<>>
    /\ fn_args \in DateInputs
    /\ fn_result = NotScored

\* rows[row_idx][field] = _parse_field(field, raw_text) for the field
\* tanggal_lahir (schema_mapper.py:49), and the same call on the value it
\* returned, when it returned one
ParseBirthDate ==
    /\ ~fn_result.done
    /\ fn_result' =
           [done |-> TRUE,
            value |-> _parse_field("tanggal_lahir", fn_args),
            again |-> IF _parse_field("tanggal_lahir", fn_args) = NoneVal THEN NoneVal
                      ELSE _parse_field("tanggal_lahir",
                                        _parse_field("tanggal_lahir", fn_args))]
    /\ UNCHANGED <<numRuns, pc, document_id, table_cells, cell_crops, tasks, recognized,
                   caught, handler, stages, detect_log, ocr_documents,
                   ocr_extracted_rows, fn_args>>

SpecDate == InitDate /\ [][ParseBirthDate]_vars

\* ------------------------------------------------------------------ properties

\* the place of a status in the order of the pipeline
Rank(status) == CHOOSE i \in 1..Len(StatusOrder) : StatusOrder[i] = status

\* C1: the status of a document never reverts: every step leaves the status of
\* every document at failed once it is failed, and otherwise moves it to failed
\* or to a status that is equal or later in the order uploaded < preprocessing
\* < detecting_table < extracting_cells < recognizing_text < awaiting_review.
C1_StatusNeverReverts ==
    [][\A d \in Docs :
          IF ocr_documents[d].status = "failed"
          THEN ocr_documents'[d].status = "failed"
          ELSE \/ ocr_documents'[d].status = "failed"
               \/ Rank(ocr_documents'[d].status) >= Rank(ocr_documents[d].status)]_vars

\* C2: when a stage of a run raises, the run starts no later stage, it has
\* started no stage twice, and the step that catches the error leaves the
\* document failed with the first ERROR_MESSAGE_LIMIT characters of the error
\* text as its error_message.
C2_StageErrorEndsFailed ==
    [][\A r \in Runs :
          /\ caught[r] # NoneVal => stages'[r] = stages[r]
          /\ \A i, j \in 1..Len(stages'[r]) : stages'[r][i] = stages'[r][j] => i = j
          /\ (caught[r] = NoneVal /\ caught'[r] \notin {NoneVal, UpdateError}) =>
                /\ ocr_documents'[document_id[r]].status = "failed"
                /\ ocr_documents'[document_id[r]].error_message
                       = SubSeq(caught'[r], 1, Min(Len(caught'[r]), ERROR_MESSAGE_LIMIT))]_vars

\* C3: the step that ends a run leaves the run's document failed when a stage
\* or a boundary call of the run raised and awaiting_review otherwise, so that
\* no run ends with the document at preprocessing, detecting_table,
\* extracting_cells or recognizing_text.
C3_RunEndsInFinalStatus ==
    [][\A r \in Runs :
          (pc[r] # "done" /\ pc'[r] = "done") =>
              ocr_documents'[document_id[r]].status
                  = (IF caught'[r] # NoneVal THEN "failed" ELSE "awaiting_review")]_vars

\* C4: when the layout model has failed and the morphological fallback has
\* found no cell, detect_table has raised, and the document of that run is not
\* awaiting_review.
C4_NoCellsIsFatal ==
    \A r \in Runs :
        (/\ detect_log[r].called
         /\ detect_log[r].primary_failed
         /\ detect_log[r].fallback_cells = <<>>) =>
            /\ detect_log[r].raised
            /\ ocr_documents[document_id[r]].status # "awaiting_review"

\* C5: whenever the layout model has failed (it raised, reported no table or
\* its markup held no cell), detect_table has called the fallback exactly once
\* and its outcome is the fallback's: the fallback's cells are what it returned
\* and what run_pipeline extracts from, and an error it raised is the
\* fallback's; the layout model's failure is neither the error of detect_table
\* nor the error the run caught nor the document's error_message.
C5_FallbackReplacesPrimary ==
    \A r \in Runs :
        (detect_log[r].called /\ detect_log[r].primary_failed) =>
            /\ detect_log[r].fallback_calls = 1
            /\ ~detect_log[r].raised => detect_log[r].cells = detect_log[r].fallback_cells
            /\ (~detect_log[r].raised /\ pc[r] = "extract") =>
                   table_cells[r] = detect_log[r].fallback_cells
            /\ detect_log[r].raised => detect_log[r].error = FallbackError
            /\ detect_log[r].error \notin {PrimaryError, NoTableError}
            /\ caught[r] \notin {PrimaryError, NoTableError}
            /\ ocr_documents[document_id[r]].error_message
                   \notin {PrimaryError, NoTableError}

\* C5 witness: the layout model failed and the run goes on to extract_cells
\* with the cells the fallback found.
C5_Witness ==
    \E r \in Runs :
        /\ detect_log[r].called
        /\ detect_log[r].primary_failed
        /\ pc[r] = "extract"
        /\ Len(table_cells[r]) = 3

\* C6: no two runs execute a stage of the same document at the same time, and
\* a run that executes a stage has the status of that stage recorded for its
\* document.
C6_OneStagePerDocument ==
    /\ \A r1, r2 \in Runs :
          (/\ r1 # r2
           /\ pc[r1] \in {"preprocess", "detect", "extract", "recognize"}
           /\ pc[r2] \in {"preprocess", "detect", "extract", "recognize"}) =>
              document_id[r1] # document_id[r2]
    /\ \A r \in Runs :
          pc[r] \in {"preprocess", "detect", "extract", "recognize"} =>
              ocr_documents[document_id[r]].status
                  = (CASE pc[r] = "preprocess" -> "preprocessing"
                       [] pc[r] = "detect" -> "detecting_table"
                       [] pc[r] = "extract" -> "extracting_cells"
                       [] pc[r] = "recognize" -> "recognizing_text")

\* C7: when recognize_cells has returned, every task it created is settled,
\* and its output has one entry per input cell, entry i with the row_idx,
\* col_idx and field_name of input cell i, in every order of completion.
C7_ReturnsAllInOrder ==
    pc[1] = "returned" =>
        /\ \A i \in 1..Len(tasks[1]) : tasks[1][i].state = "settled"
        /\ Len(recognized[1]) = Len(cell_crops[1])
        /\ \A i \in 1..Len(recognized[1]) :
              /\ recognized[1][i].row_idx = cell_crops[1][i].row_idx
              /\ recognized[1][i].col_idx = cell_crops[1][i].col_idx
              /\ recognized[1][i].field_name = cell_crops[1][i].field_name

\* C7 witness: recognize_cells has returned MaxCells entries for cells that
\* were not given in reading order.
C7_Witness ==
    /\ pc[1] = "returned"
    /\ Len(recognized[1]) = MaxCells
    /\ cell_crops[1][1].row_idx > cell_crops[1][MaxCells].row_idx

\* C8: at no moment of a recognize_cells call are more than SEMAPHORE_LIMIT
\* calls of the recognition model in flight.
C8_AtMostFiveInFlight ==
    Cardinality({i \in 1..Len(tasks[1]) : tasks[1][i].state = "in_flight"})
        <= SEMAPHORE_LIMIT

\* C8 witness: SEMAPHORE_LIMIT calls are in flight while a further cell waits.
C8_Witness ==
    /\ Cardinality({i \in 1..Len(tasks[1]) : tasks[1][i].state = "in_flight"})
           = SEMAPHORE_LIMIT
    /\ \E i \in 1..Len(tasks[1]) : tasks[1][i].state = "waiting"

\* C9: recognize_cells never raises; when it has returned, every call is
\* settled, the entry of a cell whose call raised has empty text, confidence 0
\* and the error text as its error, and the entry of every other cell is what
\* that cell's call returned.
C9_CellFailureIsIsolated ==
    /\ pc[1] # "raised"
    /\ pc[1] = "returned" =>
          \A i \in 1..Len(tasks[1]) :
              /\ tasks[1][i].state = "settled"
              /\ IF tasks[1][i].exc
                 THEN /\ recognized[1][i].text = <<>>
                      /\ recognized[1][i].confidence = 0
                      /\ recognized[1][i].error = ModelError
                 ELSE recognized[1][i] = tasks[1][i].value

\* C9 witness: recognize_cells has returned after one call raised and another
\* call answered a text.
C9_Witness ==
    /\ pc[1] = "returned"
    /\ \E i, j \in 1..Len(tasks[1]) :
          /\ tasks[1][i].exc
          /\ ~tasks[1][j].exc
          /\ recognized[1][j].text = <<"S", "i", "t", "i">>

\* C10: every confidence of a recognized cell, on the answer, the empty-crop
\* and the failure path, is a multiple of 0.01 between 0.00 and 1.00 (in
\* units of 0.0001: a multiple of 100 between 0 and 10000).
C10_ConfidenceTwoDecimalsInUnit ==
    fn_result.done =>
        /\ fn_result.value % 100 = 0
        /\ fn_result.value >= 0
        /\ fn_result.value <= 10000

\* C10 witness: a confidence of 0.95 was raised by the hint and capped at 1.00.
C10_Witness ==
    /\ fn_result.done
    /\ fn_result.value = 10000
    /\ fn_args.path = "response"
    /\ fn_args.field_name = "jenis_kelamin"
    /\ fn_args.hint = <<"L", " ">>

\* C11: for every field, an empty recognized text has confidence 0.5 when the
\* cell had no detector hint and 0.3 when it had a non-empty hint.
C11_EmptyTextConfidence ==
    (/\ fn_result.done
     /\ fn_args.path = "response"
     /\ Strip(fn_args.text) = <<>>) =>
        fn_result.value = (IF fn_args.hint = <<>> THEN 5000 ELSE 3000)

\* C12: for bb_lalu, bb_sekarang and tb, a non-empty text whose hint does not
\* agree with it has confidence 0.90 when the text with "," read as "." is a
\* number inside the range of the field (1 to 30 for the weights, 30 to 130
\* for the height) and 0.40 in every other case.
C12_NumericFieldConfidence ==
    (/\ fn_result.done
     /\ fn_args.path = "response"
     /\ fn_args.field_name \in {"bb_lalu", "bb_sekarang", "tb"}
     /\ Strip(fn_args.text) # <<>>
     /\ (fn_args.hint = <<>>
           \/ Strip(Lower(fn_args.hint)) # Strip(Lower(Strip(fn_args.text))))) =>
        fn_result.value
            = (IF /\ ParseFloat(ReplaceComma(Strip(fn_args.text))).ok
                  /\ FloatInRange(ParseFloat(ReplaceComma(Strip(fn_args.text))),
                                  IF fn_args.field_name = "tb" THEN 30 ELSE 1,
                                  IF fn_args.field_name = "tb" THEN 130 ELSE 30)
               THEN 9000 ELSE 4000)

\* C13: in every row map_to_schema returns, _confidence_avg is the mean,
\* rounded to 2 decimals, of the confidences of the fields whose parsed value
\* is not None, and 0.0 when the row has no such field (so a row of blank
\* cells has None for every field and an average of 0.0).
C13_AverageOverPopulatedFields ==
    fn_result.done =>
        \A i \in 1..Len(fn_result.value) :
            LET row == fn_result.value[i]
                populated == {f \in DOMAIN row.values : row.values[f] # NoneVal}
            IN  row._confidence_avg
                    = (IF populated = {} THEN 0
                       ELSE RoundDiv2(SumOver(row._confidences, populated),
                                      Cardinality(populated)))

\* C14: parsing the birth-date value produced from a text gives that value
\* again; the value is None only for the empty text, and otherwise it is the
\* text unchanged or a string DD/MM/YYYY of two-digit day and month and a
\* four-digit year between 2010 and 2030.
C14_BirthDateIdempotent ==
    fn_result.done =>
        /\ fn_result.again = fn_result.value
        /\ (fn_result.value = NoneVal) <=> (fn_args = <<>>)
        /\ \/ fn_result.value = NoneVal
           \/ fn_result.value = fn_args
           \/ /\ Len(fn_result.value) = 10
              /\ \A i \in {1, 2, 4, 5, 7, 8, 9, 10} : fn_result.value[i] \in Digits
              /\ fn_result.value[3] = "/"
              /\ fn_result.value[6] = "/"
              /\ IntOf(SubSeq(fn_result.value, 7, 10)) \in 2010..2030

\* C14 witness: "5-3-22x" was parsed to "05/03/2022", and "05/03/2022" was
\* parsed again.
C14_Witness ==
    /\ fn_result.done
    /\ fn_args = <<"5", "-", "3", "-", "2", "2", "x">>
    /\ fn_result.value = <<"0", "5", "/", "0", "3", "/", "2", "0", "2", "2">>
    /\ fn_result.again = fn_result.value

\* C15: a document becomes awaiting_review only in the step of a run that
\* follows its settled recognition tasks and its insert: at that step every
\* task of the run is settled, the run has gone through map/write as its last
\* stage, and the row_count it records is the size of the one batch the run
\* inserted, or 0 when it inserted none; a run whose insert raised does not
\* write awaiting_review; no run ever has more than one batch in the row
\* store, and no batch is empty.
C15_AwaitingReviewAfterInsert ==
    [][/\ \A r \in Runs :
             /\ Cardinality({i \in 1..Len(ocr_extracted_rows') :
                                ocr_extracted_rows'[i].run = r}) <= 1
             /\ (pc[r] = "recognize" /\ pc'[r] = "done") =>
                   IF caught'[r] = NoneVal
                   THEN /\ \A i \in 1..Len(tasks[r]) : tasks[r][i].state = "settled"
                        /\ stages'[r] = <<"download", "preprocess", "detect", "extract",
                                          "recognize", "map_write">>
                        /\ ocr_documents'[document_id[r]].status = "awaiting_review"
                        /\ ocr_documents'[document_id[r]].ocr_structured_result.row_count
                               = (IF \E i \in 1..Len(ocr_extracted_rows') :
                                         ocr_extracted_rows'[i].run = r
                                  THEN Len(ocr_extracted_rows'[
                                               CHOOSE i \in 1..Len(ocr_extracted_rows') :
                                                   ocr_extracted_rows'[i].run = r].records)
                                  ELSE 0)
                   ELSE \/ ocr_documents' = ocr_documents
                        \/ ocr_documents'[document_id[r]].status = "failed"
       /\ \A i \in 1..Len(ocr_extracted_rows') : ocr_extracted_rows'[i].records # <<>>
       /\ \A d \in Docs :
             (/\ ocr_documents'[d].status = "awaiting_review"
              /\ ocr_documents[d] # ocr_documents'[d]) =>
                 \E r \in Runs :
                     /\ document_id[r] = d
                     /\ pc[r] = "recognize"
                     /\ pc'[r] = "done"
                     /\ caught'[r] = NoneVal]_vars

\* C15 witness: a run has ended with its document awaiting_review and its one
\* batch of rows in the row store.
C15_Witness ==
    \E r \in Runs :
        /\ pc[r] = "done"
        /\ caught[r] = NoneVal
        /\ ocr_documents[document_id[r]].status = "awaiting_review"
        /\ ocr_documents[document_id[r]].ocr_structured_result.row_count = 1
        /\ \E i \in 1..Len(ocr_extracted_rows) :
              /\ ocr_extracted_rows[i].run = r
              /\ Len(ocr_extracted_rows[i].records) = 1
====
